---- MODULE Spec2Model ----
(***************************************************************************)
(* Model of the Flask application of src/app: create_app (app.py) and the  *)
(* actuator endpoints of FlaskActuator (actuator.py), served by the        *)
(* gunicorn worker processes configured in gunicorn.conf.py.               *)
(*                                                                         *)
(* Strings the code inspects or builds (environment variable names and     *)
(* values, the "42s" uptime, the build timestamp) are sequences of         *)
(* one-character strings, so that lower-casing, substring search, slicing  *)
(* and formatting are computed.  Status words, paths and error messages    *)
(* are never taken apart and are plain strings.                            *)
(*                                                                         *)
(* Time is counted in ticks of 1/TicksPerSecond second.  The float         *)
(* arithmetic of health() and metrics() is modelled exactly (as integer    *)
(* cross-multiplication and ratios), which agrees with IEEE doubles for    *)
(* byte counts below 2^50.  psutil's memory percent has one decimal and is *)
(* counted in tenths of a percent.                                         *)
(***************************************************************************)
EXTENDS Integers, Sequences, FiniteSets, TLC

VARIABLES
    now,              \* the clock time.time() reads, in ticks
    environ,          \* os.environ: a function from names to values
    psutil_available, \* whether "import psutil" succeeds in this deployment
    apps,             \* per worker process: the app create_app() built
    inflight,         \* per worker and thread: a metrics() call in its sampling window
    response,         \* the response of the last completed request
    reads,            \* what the last completed request read (clock, psutil)
    reported,         \* history: the uptimes each worker has reported so far
    failed            \* history: per worker, whether a health/metrics call failed

vars == <<now, environ, psutil_available, apps, inflight, response, reads,
          reported, failed>>

----------------------------------------------------------------------------
(* Bounds of the model *)

MaxTime == 2
MaxUptime == 4
MaxDisk == 10
MaxEnvVars == 2
MaxInflight == 2

(* Program constants *)

workers == 2
threads == 4
TicksPerSecond == 1 + 1
cpu_interval == 1

Workers == 1..workers
Threads == 1..threads
NoTime == 0 - 1

----------------------------------------------------------------------------
(* Strings *)

UpperCase == <<"A","B","C","D","E","F","G","H","I","J","K","L","M",
               "N","O","P","Q","R","S","T","U","V","W","X","Y","Z">>
LowerCase == <<"a","b","c","d","e","f","g","h","i","j","k","l","m",
               "n","o","p","q","r","s","t","u","v","w","x","y","z">>
Digits == <<"0","1","2","3","4","5","6","7","8","9">>

\* the lower-case letter of each upper-case letter
ToLower ==
    [c \in {UpperCase[i] : i \in 1..Len(UpperCase)} |->
        LowerCase[CHOOSE i \in 1..Len(UpperCase) : UpperCase[i] = c]]

char_lower(c) == IF c \in DOMAIN ToLower THEN ToLower[c] ELSE c

\* str.lower()
lower(s) == [i \in 1..Len(s) |-> char_lower(s[i])]

\* sub in s
contains(sub, s) ==
    \E i \in 1..(Len(s) - Len(sub) + 1) : SubSeq(s, i, i + Len(sub) - 1) = sub

\* s[:n]
prefix(s, n) == SubSeq(s, 1, IF Len(s) < n THEN Len(s) ELSE n)

RECURSIVE str_int(_)
\* str(n) of a non-negative integer
str_int(n) ==
    IF n < 10 THEN <<Digits[n + 1]>>
    ELSE str_int(n \div 10) \o <<Digits[(n % 10) + 1]>>

DigitValue(c) == (CHOOSE i \in 1..10 : Digits[i] = c) - 1

RECURSIVE parse_int(_)
\* the number a string of digits denotes
parse_int(s) ==
    IF Len(s) = 0 THEN 0
    ELSE 10 * parse_int(SubSeq(s, 1, Len(s) - 1)) + DigitValue(s[Len(s)])

\* int(x) of a float given as a count of ticks: truncation toward zero
int_seconds(ticks) ==
    IF ticks >= 0 THEN ticks \div TicksPerSecond
    ELSE -((-ticks) \div TicksPerSecond)

\* f"{uptime_seconds}s"
format_uptime(seconds) == str_int(seconds) \o <<"s">>

\* datetime.now().isoformat(): a string that names the clock reading
isoformat(t) == <<"T">> \o str_int(t)

----------------------------------------------------------------------------
(* Names and values of the environment *)

APP_NAME == <<"A","P","P","_","N","A","M","E">>
APP_VERSION == <<"A","P","P","_","V","E","R","S","I","O","N">>
BUILD_TIME == <<"B","U","I","L","D","_","T","I","M","E">>
GIT_BRANCH == <<"G","I","T","_","B","R","A","N","C","H">>
GIT_COMMIT_HASH == <<"G","I","T","_","C","O","M","M","I","T","_","H","A","S","H">>
GIT_COMMIT_TIME == <<"G","I","T","_","C","O","M","M","I","T","_","T","I","M","E">>
ENVIRONMENT == <<"E","N","V","I","R","O","N","M","E","N","T">>
FLASK_DEBUG == <<"F","L","A","S","K","_","D","E","B","U","G">>
FLASK_TESTING == <<"F","L","A","S","K","_","T","E","S","T","I","N","G">>
PORT == <<"P","O","R","T">>
HOST == <<"H","O","S","T">>

default_app_name == <<"f","l","a","s","k","-","w","e","b">>
default_app_version == <<"1",".","0",".","0">>
default_unknown == <<"u","n","k","n","o","w","n">>
default_environment == <<"d","e","v","e","l","o","p","m","e","n","t">>
default_false == <<"F","a","l","s","e">>
default_port == <<"8","0","8","0">>
default_host == <<"0",".","0",".","0",".","0">>

\* the substrings of a name that env() takes for a secret
secret_words == {
    <<"p","a","s","s","w","o","r","d">>,
    <<"s","e","c","r","e","t">>,
    <<"k","e","y">>,
    <<"t","o","k","e","n">>,
    <<"c","r","e","d","e","n","t","i","a","l">>,
    <<"a","u","t","h">> }

\* os.getenv(name, default)
getenv(env, name, default) == IF name \in DOMAIN env THEN env[name] ELSE default

(* The environments the model starts from.  The names cover every secret   *)
(* word in upper, lower and mixed case, inside longer names, and near      *)
(* misses; one value holds a secret word itself.                           *)

EnvNames == {
    <<"P","A","T","H">>,
    <<"H","O","M","E">>,
    ENVIRONMENT,
    GIT_COMMIT_HASH,
    <<"A","P","I","_","K","E","Y">>,
    <<"A","p","i","_","K","e","y">>,
    <<"k","e","y">>,
    <<"M","O","N","K","E","Y">>,
    <<"K","E","_","Y">>,
    <<"D","B","_","P","A","S","S","W","O","R","D">>,
    <<"P","a","s","s","W","o","r","d">>,
    <<"P","A","S","S">>,
    <<"M","Y","_","S","E","C","R","E","T">>,
    <<"S","E","C","R","E">>,
    <<"T","O","K","E","N">>,
    <<"T","O","K">>,
    <<"C","R","E","D","E","N","T","I","A","L","S">>,
    <<"a","w","s","_","c","r","e","d","e","n","t","i","a","l">>,
    <<"A","U","T","H","O","R">>,
    <<"O","A","u","t","h">> }

EnvValues == {
    <<"p","r","o","d">>,
    <<"s","e","c","r","e","t","-","v","a","l","u","e">> }

ConfigNames == {APP_NAME, APP_VERSION, BUILD_TIME, GIT_BRANCH, GIT_COMMIT_HASH,
                GIT_COMMIT_TIME, ENVIRONMENT}

ConfigValues == {
    <<>>,
    <<"2",".","3",".","1">>,
    <<"a","b","c","1","2","3","4","5","6","7">> }

RECURSIVE SubsetsUpTo(_, _)
\* the subsets of S of at most k elements
SubsetsUpTo(S, k) ==
    IF k = 0 THEN {{}}
    ELSE LET P == SubsetsUpTo(S, k - 1) IN P \cup {T \cup {x} : T \in P, x \in S}

\* every environment of at most MaxEnvVars variables over the names and values
Environments(names, values) ==
    UNION {[S -> values] : S \in SubsetsUpTo(names, MaxEnvVars)}

\* the environment of the lifecycle specification: one secret, one setting
DeployedEnviron ==
    (<<"A","P","I","_","K","E","Y">> :> <<"p","r","o","d">>)
    @@ (ENVIRONMENT :> <<"p","r","o","d">>)

----------------------------------------------------------------------------
(* What the handlers read *)

\* a psutil read that raised, and a read that was not made
ReadFailed == [state |-> "error"]
Unread == [state |-> "unread"]

\* psutil.disk_usage('/')
disk_usage(total, free) ==
    [state |-> "ok", total |-> total, used |-> total - free, free |-> free]

\* psutil.virtual_memory(): percent has one decimal, here in tenths of a percent
virtual_memory(total, percent) ==
    [state |-> "ok", total |-> total,
     available |-> total - (total * percent) \div 1000, percent |-> percent]

\* psutil.cpu_percent(interval=1), in tenths of a percent
cpu_percent(percent) == [state |-> "ok", percent |-> percent]

NoReads == [time |-> NoTime, cpu |-> Unread, mem |-> Unread, disk |-> Unread]

\* str(e) of the exception a failed read raises, and of a division by zero
ReadErrorMessage == "psutil read failed"
ZeroDivisionMessage == "division by zero"

(* The reads the specifications draw from.  The full sets hold every disk  *)
(* of at most MaxDisk units, so both sides of the 10% threshold and the    *)
(* threshold itself, and both sides of the 90% memory threshold; the       *)
(* lifecycle specification draws from one read of each outcome.            *)

MemPercents == {899, 900, 901}

DiskReads ==
    {ReadFailed} \cup UNION {{disk_usage(t, f) : f \in 0..t} : t \in 0..MaxDisk}
MemReads == {ReadFailed} \cup {virtual_memory(1000, p) : p \in MemPercents}

SomeDiskReads == {ReadFailed, disk_usage(0, 0), disk_usage(10, 1), disk_usage(10, 5)}
SomeMemReads == {ReadFailed, virtual_memory(1000, 500)}
SomeCpuReads == {ReadFailed, cpu_percent(250)}

----------------------------------------------------------------------------
(* create_app and the routes *)

ActuatorRoutes == {"/actuator", "/actuator/health", "/actuator/info",
                   "/actuator/metrics", "/actuator/env", "/actuator/configprops"}
AppRoutes == {"/healthz", "/debug", "/"}

NoApp == [created |-> FALSE, routes |-> {}, start_time |-> NoTime]

\* FlaskActuator.__init__ and register_endpoints: the routes and the start time
FlaskActuator(t) == [routes |-> ActuatorRoutes, start_time |-> t]

\* create_app() with /healthz registered inside the try block, after the import
create_app_healthz_in_try(t, import_ok) ==
    IF import_ok
    THEN [created |-> TRUE,
          routes |-> FlaskActuator(t).routes \cup AppRoutes,
          start_time |-> FlaskActuator(t).start_time]
    ELSE [created |-> TRUE, routes |-> AppRoutes \ {"/healthz"}, start_time |-> NoTime]

\* create_app(): the actuator is optional, an ImportError leaves the app without it
create_app(t, import_ok) ==
    IF import_ok
    THEN [created |-> TRUE,
          routes |-> FlaskActuator(t).routes \cup AppRoutes,
          start_time |-> FlaskActuator(t).start_time]
    ELSE [created |-> TRUE, routes |-> AppRoutes, start_time |-> NoTime]

----------------------------------------------------------------------------
(* The handlers: each gives the HTTP status code and the JSON body *)

\* healthz()
healthz == [code |-> 200, body |-> [status |-> "ok"]]

\* Flask's answer for a path with no rule
not_found == [code |-> 404, body |-> [error |-> "Not Found"]]

\* actuator_index()
actuator_index ==
    [code |-> 200,
     body |-> [_links |-> [self |-> "/actuator"] @@
                          [p \in {"health", "info", "metrics", "env", "configprops"}
                               |-> "/actuator/" \o p]]]

\* disk_status with >= for >
disk_status_not_strict(d) == IF d.free * 100 >= 10 * d.total THEN "UP" ELSE "DOWN"

\* disk_status: free/total * 100 > 10
disk_status(d) == IF d.free * 100 > 10 * d.total THEN "UP" ELSE "DOWN"

\* memory_status: percent < 90
memory_status(m) == IF m.percent < 900 THEN "UP" ELSE "DOWN"

\* overall_status that forgets the memory check
overall_status_disk_only(ds, ms) == IF ds = "UP" THEN "UP" ELSE "DOWN"

\* overall_status
overall_status(ds, ms) == IF ds = "UP" /\ ms = "UP" THEN "UP" ELSE "DOWN"

\* the except branch of health()
health_failed(message) ==
    [code |-> 503, body |-> [status |-> "DOWN", details |-> [error |-> message]]]

\* the body of the try block of health(), all reads made and total > 0
health_report(d, m) ==
    [code |-> 200,
     body |-> [status |-> overall_status(disk_status(d), memory_status(m)),
               components |->
                 [diskSpace |-> [status |-> disk_status(d),
                                 details |-> [total |-> d.total, free |-> d.free,
                                              threshold |-> [num |-> d.total, den |-> 10],
                                              exists |-> TRUE]],
                  memory |-> [status |-> memory_status(m),
                              details |-> [total |-> m.total,
                                           available |-> m.available,
                                           percent |-> m.percent]],
                  ping |-> [status |-> "UP"]]]]

\* Flask's answer when a handler raises
internal_server_error == [code |-> 500, body |-> [error |-> "Internal Server Error"]]

\* health() with the memory read outside the try block
health_memory_uncaught(d, m) ==
    IF d.state = "error" THEN health_failed(ReadErrorMessage)
    ELSE IF d.total = 0 THEN health_failed(ZeroDivisionMessage)
    ELSE IF m.state = "error" THEN internal_server_error
    ELSE health_report(d, m)

\* health(): the disk read, the division, then the memory read; any exception
\* of the three ends in the except branch
health(d, m) ==
    IF d.state = "error" THEN health_failed(ReadErrorMessage)
    ELSE IF d.total = 0 THEN health_failed(ZeroDivisionMessage)
    ELSE IF m.state = "error" THEN health_failed(ReadErrorMessage)
    ELSE health_report(d, m)

\* the reads health() makes before it returns or raises
health_reads(d, m) ==
    [NoReads EXCEPT !.disk = d,
                    !.mem = IF d.state = "ok" /\ d.total # 0 THEN m ELSE Unread]

\* the except branch of metrics()
metrics_failed(message) == [code |-> 500, body |-> [error |-> message]]

\* metrics(): the cpu sample, the memory read, the disk read, then the values
metrics(c, m, d, t, start_time) ==
    IF c.state = "error" \/ m.state = "error" \/ d.state = "error"
    THEN metrics_failed(ReadErrorMessage)
    ELSE IF d.total = 0 THEN metrics_failed(ZeroDivisionMessage)
    ELSE [code |-> 200,
          body |-> [names |-> <<"system.cpu.usage", "system.memory.usage",
                                "system.memory.total", "system.disk.usage",
                                "system.disk.total", "process.uptime">>,
                    measurements |->
                      [cpu_usage |-> c.percent,
                       memory_usage |-> m.percent,
                       memory_total |-> m.total,
                       disk_usage |-> [num |-> d.used * 100, den |-> d.total],
                       disk_total |-> d.total,
                       uptime |-> t - start_time]]]

\* the reads metrics() makes before it returns or raises
metrics_reads(c, m, d, t) ==
    [time |-> IF c.state = "ok" /\ m.state = "ok" /\ d.state = "ok" /\ d.total # 0
              THEN t ELSE NoTime,
     cpu |-> c,
     mem |-> IF c.state = "ok" THEN m ELSE Unread,
     disk |-> IF c.state = "ok" /\ m.state = "ok" THEN d ELSE Unread]

\* info(): uptime_seconds = int(time.time() - self.start_time)
uptime_seconds(t, start_time) == int_seconds(t - start_time)

\* the commit id cut to a short hash, as get_git_commit_hash() of app.py cuts it
info_commit_id_short(env) == prefix(getenv(env, GIT_COMMIT_HASH, default_unknown), 8)

\* info(): the commit id is the variable itself
info_commit_id(env) == getenv(env, GIT_COMMIT_HASH, default_unknown)

\* info()
info(env, t, start_time) ==
    [code |-> 200,
     body |-> [app |-> [name |-> getenv(env, APP_NAME, default_app_name),
                        version |-> getenv(env, APP_VERSION, default_app_version),
                        description |-> "Flask Web Application with Actuator",
                        uptime |-> format_uptime(uptime_seconds(t, start_time))],
               build |-> [version |-> getenv(env, APP_VERSION, default_app_version),
                          artifact |-> getenv(env, APP_NAME, default_app_name),
                          name |-> getenv(env, APP_NAME, default_app_name),
                          time |-> getenv(env, BUILD_TIME, isoformat(t)),
                          group |-> "me-test"],
               git |-> [branch |-> getenv(env, GIT_BRANCH, default_unknown),
                        commit |-> [id |-> info_commit_id(env),
                                    time |-> getenv(env, GIT_COMMIT_TIME, default_unknown)]],
               environment |-> getenv(env, ENVIRONMENT, default_environment)]]

\* is_secret without the lower-casing of the name
is_secret_case_sensitive(name) == \E secret \in secret_words : contains(secret, name)

\* env(): whether a variable's name marks it as a secret
is_secret(name) ==
    LET lowered == lower(name) IN \E secret \in secret_words : contains(secret, lowered)

\* env(): safe_env_vars
safe_env_vars(env) == [k \in {n \in DOMAIN env : ~is_secret(n)} |-> env[k]]

\* env()
env(e) ==
    LET safe == safe_env_vars(e) IN
    [code |-> 200,
     body |-> [activeProfiles |-> <<getenv(e, ENVIRONMENT, default_environment)>>,
               propertySources |->
                 <<[name |-> "systemEnvironment",
                    properties |-> [k \in DOMAIN safe |-> [value |-> safe[k]]]]>>]]

\* configprops()
configprops(e) ==
    [code |-> 200,
     body |-> [prefix |-> "flask",
               properties |-> [debug |-> getenv(e, FLASK_DEBUG, default_false),
                               testing |-> getenv(e, FLASK_TESTING, default_false),
                               port |-> getenv(e, PORT, default_port),
                               host |-> getenv(e, HOST, default_host)]]]

----------------------------------------------------------------------------
(* The state machine *)

\* the response a worker sends for a request
Reply(w, path, r) == [endpoint |-> path, worker |-> w, code |-> r.code, body |-> r.body]

NoResponse == [endpoint |-> "none", worker |-> 0, code |-> 0, body |-> [none |-> TRUE]]

Idle == [pc |-> "idle", t1 |-> NoTime]

\* the metrics() calls inside their sampling window
Sampling == {<<w, t>> \in Workers \X Threads : inflight[w][t].pc = "sampling"}

\* the end of the sampling window that began at t1
window_end(t1) == t1 + cpu_interval * TicksPerSecond

\* a worker process starts: gunicorn imports the app and calls create_app()
CreateApp(w) ==
    /\ ~apps[w].created
    /\ apps' = [apps EXCEPT ![w] = create_app(now, psutil_available)]
    /\ UNCHANGED <<now, environ, psutil_available, inflight, response, reads>>

\* time passes, up to the horizon of the specification
Tick(horizon) ==
    /\ now < horizon
    /\ now' = now + 1
    /\ UNCHANGED <<environ, psutil_available, apps, inflight, response, reads>>

\* a request for a path the worker's app has no rule for
NotFound(w, path) ==
    /\ apps[w].created
    /\ path \notin apps[w].routes
    /\ response' = Reply(w, path, not_found)
    /\ reads' = NoReads
    /\ UNCHANGED <<now, environ, psutil_available, apps, inflight>>

\* GET /healthz
Healthz(w) ==
    /\ apps[w].created
    /\ "/healthz" \in apps[w].routes
    /\ response' = Reply(w, "/healthz", healthz)
    /\ reads' = NoReads
    /\ UNCHANGED <<now, environ, psutil_available, apps, inflight>>

\* GET /actuator
Index(w) ==
    /\ apps[w].created
    /\ "/actuator" \in apps[w].routes
    /\ response' = Reply(w, "/actuator", actuator_index)
    /\ reads' = NoReads
    /\ UNCHANGED <<now, environ, psutil_available, apps, inflight>>

\* GET /actuator/health, with what the disk and memory reads give
Health(w, d, m) ==
    /\ apps[w].created
    /\ "/actuator/health" \in apps[w].routes
    /\ response' = Reply(w, "/actuator/health", health(d, m))
    /\ reads' = health_reads(d, m)
    /\ UNCHANGED <<now, environ, psutil_available, apps, inflight>>

\* info() that restarts the uptime count at every call
Info_restarts_uptime(w) ==
    /\ apps[w].created
    /\ "/actuator/info" \in apps[w].routes
    /\ response' = Reply(w, "/actuator/info", info(environ, now, apps[w].start_time))
    /\ reads' = [NoReads EXCEPT !.time = now]
    /\ apps' = [apps EXCEPT ![w].start_time = now]
    /\ UNCHANGED <<now, environ, psutil_available, inflight>>

\* GET /actuator/info
Info(w) ==
    /\ apps[w].created
    /\ "/actuator/info" \in apps[w].routes
    /\ response' = Reply(w, "/actuator/info", info(environ, now, apps[w].start_time))
    /\ reads' = [NoReads EXCEPT !.time = now]
    /\ UNCHANGED <<now, environ, psutil_available, apps, inflight>>

\* GET /actuator/env
Env(w) ==
    /\ apps[w].created
    /\ "/actuator/env" \in apps[w].routes
    /\ response' = Reply(w, "/actuator/env", env(environ))
    /\ reads' = NoReads
    /\ UNCHANGED <<now, environ, psutil_available, apps, inflight>>

\* GET /actuator/configprops
Configprops(w) ==
    /\ apps[w].created
    /\ "/actuator/configprops" \in apps[w].routes
    /\ response' = Reply(w, "/actuator/configprops", configprops(environ))
    /\ reads' = NoReads
    /\ UNCHANGED <<now, environ, psutil_available, apps, inflight>>

\* metrics() with one sampling window per worker, restarted by every call
MetricsBegin_shared_window(w) ==
    /\ apps[w].created
    /\ "/actuator/metrics" \in apps[w].routes
    /\ Cardinality(Sampling) < MaxInflight
    /\ \E t \in Threads :
        /\ inflight[w][t].pc = "idle"
        /\ \A u \in Threads : u < t => inflight[w][u].pc # "idle"
        /\ inflight' = [inflight EXCEPT ![w] =
              [u \in Threads |-> IF u = t \/ inflight[w][u].pc = "sampling"
                                 THEN [pc |-> "sampling", t1 |-> now]
                                 ELSE inflight[w][u]]]
    /\ UNCHANGED <<now, environ, psutil_available, apps, response, reads>>

\* GET /actuator/metrics, entering psutil.cpu_percent(interval=1): an idle
\* thread of the worker takes the request and its sampling window begins
MetricsBegin(w) ==
    /\ apps[w].created
    /\ "/actuator/metrics" \in apps[w].routes
    /\ Cardinality(Sampling) < MaxInflight
    /\ \E t \in Threads :
        /\ inflight[w][t].pc = "idle"
        /\ \A u \in Threads : u < t => inflight[w][u].pc # "idle"
        /\ inflight' = [inflight EXCEPT ![w][t] = [pc |-> "sampling", t1 |-> now]]
    /\ UNCHANGED <<now, environ, psutil_available, apps, response, reads>>

\* GET /actuator/metrics, from the end of the sampling window (or the failure
\* of the cpu read) to the response, with what the three reads give
MetricsEnd(w, t, c, m, d) ==
    /\ inflight[w][t].pc = "sampling"
    /\ c.state = "error" \/ now >= window_end(inflight[w][t].t1)
    /\ inflight' = [inflight EXCEPT ![w][t] = Idle]
    /\ response' = Reply(w, "/actuator/metrics",
                         metrics(c, m, d, now, apps[w].start_time))
    /\ reads' = metrics_reads(c, m, d, now)
    /\ UNCHANGED <<now, environ, psutil_available, apps>>

----------------------------------------------------------------------------
(* History variables.  They record what the responses so far have shown    *)
(* and are read by no handler.                                             *)

\* whether a read of the last request raised
AnyReadFailed == \E k \in {"cpu", "mem", "disk"} : reads[k].state = "error"

\* failed[w]: a health() or metrics() call of worker w has hit a read failure
RecordFailures ==
    failed' = [failed EXCEPT ![response'.worker] =
                 @ \/ \E k \in {"cpu", "mem", "disk"} : reads'[k].state = "error"]

NothingReported == [who |-> 0, up |-> NoTime, prev_who |-> 0, prev_up |-> NoTime]

\* the number a "42s" uptime string shows
shown_seconds(s) == parse_int(SubSeq(s, 1, Len(s) - 1))

\* the uptime a 200 response of info() or metrics() shows: seconds or ticks
shown_uptime(r) ==
    IF r.endpoint = "/actuator/info" THEN shown_seconds(r.body.app.uptime)
    ELSE r.body.measurements.uptime

\* reported[e]: the worker that served the latest call of endpoint e and the
\* uptime it showed, and the same for the call of e before that one
RecordUptime(e) ==
    reported' =
      IF response'.code = 200
      THEN [reported EXCEPT ![e] = [who |-> response'.worker,
                                    up |-> shown_uptime(response'),
                                    prev_who |-> reported[e].who,
                                    prev_up |-> reported[e].up]]
      ELSE reported

\* a step of the program together with the history it leaves
Quiet(step) == step /\ UNCHANGED <<reported, failed>>
WithFailures(step) == step /\ RecordFailures /\ UNCHANGED reported
WithUptime(step, e) == step /\ RecordUptime(e) /\ UNCHANGED failed

AllRoutes == ActuatorRoutes \cup AppRoutes

----------------------------------------------------------------------------
(* Spec: the workers start one by one and serve requests of every kind in  *)
(* any order, one metrics() call at a time; reads fail or succeed.         *)

Init ==
    /\ now = 0
    /\ environ = DeployedEnviron
    /\ psutil_available \in BOOLEAN
    /\ apps = [w \in Workers |-> NoApp]
    /\ inflight = [w \in Workers |-> [t \in Threads |-> Idle]]
    /\ response = NoResponse
    /\ reads = NoReads
    /\ reported = [info |-> NothingReported, metrics |-> NothingReported]
    /\ failed = [w \in Workers |-> FALSE]

Next ==
    \/ Quiet(Tick(MaxTime))
    \/ \E w \in Workers : Quiet(CreateApp(w))
    \/ \E w \in Workers : \E path \in AllRoutes : Quiet(NotFound(w, path))
    \/ \E w \in Workers : Quiet(Healthz(w))
    \/ \E w \in Workers : Quiet(Index(w))
    \/ \E w \in Workers : \E d \in SomeDiskReads, m \in SomeMemReads :
         WithFailures(Health(w, d, m))
    \/ \E w \in Workers : Quiet(Info(w))
    \/ \E w \in Workers : Quiet(Env(w))
    \/ \E w \in Workers : Quiet(Configprops(w))
    \/ \E w \in Workers : Sampling = {} /\ Quiet(MetricsBegin(w))
    \/ \E w \in Workers : \E t \in Threads :
         \E c \in SomeCpuReads, m \in SomeMemReads, d \in SomeDiskReads :
            WithFailures(MetricsEnd(w, t, c, m, d))

Spec == Init /\ [][Next]_vars

----------------------------------------------------------------------------
(* Claims checked under Spec *)

\* the last response came from the handler of the path (not from a missing rule)
Handled(path) == response.endpoint = path /\ response.code # 404

\* C3: a read that raises inside health() or metrics() is caught. health()
\* then answers 503 with status DOWN and the error message in details,
\* metrics() answers 500 with the error message; neither answers with any
\* other code than 200 and its failure code, and neither gives the failure
\* answer with the read error's message unless a read raised.
C3_ReadFailureIsCaught ==
    /\ Handled("/actuator/health") =>
         /\ response.code \in {200, 503}
         /\ AnyReadFailed <=>
              /\ response.code = 503
              /\ response.body = [status |-> "DOWN",
                                  details |-> [error |-> ReadErrorMessage]]
    /\ Handled("/actuator/metrics") =>
         /\ response.code \in {200, 500}
         /\ AnyReadFailed <=>
              /\ response.code = 500
              /\ response.body = [error |-> ReadErrorMessage]

\* C3 witness: metrics() whose cpu and memory reads succeeded and whose disk
\* read raised has answered 500
C3_Witness ==
    /\ Handled("/actuator/metrics")
    /\ reads.cpu.state = "ok" /\ reads.mem.state = "ok" /\ reads.disk.state = "error"
    /\ response.code = 500

\* C7: every answer to GET /healthz is 200 with status "ok"
C7_HealthzAlwaysOk ==
    response.endpoint = "/healthz" =>
        response.code = 200 /\ response.body = [status |-> "ok"]

\* C7 witness: /healthz has answered on a worker whose app has no actuator
\* (the import failed)
C7_Witness ==
    /\ response.endpoint = "/healthz"
    /\ response.code = 200
    /\ ~psutil_available
    /\ "/actuator/health" \notin apps[response.worker].routes

\* C9: once a health() or metrics() call of a worker has hit a read failure,
\* the worker's later answers are the normal ones: 200 from index, info,
\* env, configprops and /healthz, and 200 again from a health() or metrics()
\* call whose reads all succeed
C9_ServesNormallyAfterFailure ==
    (response.worker \in Workers /\ failed[response.worker]) =>
        /\ response.endpoint \in {"/actuator", "/actuator/info", "/actuator/env",
                                  "/actuator/configprops", "/healthz"}
             => response.code = 200
        /\ (response.endpoint \in {"/actuator/health", "/actuator/metrics"}
            /\ ~AnyReadFailed)
             => response.code = 200


----------------------------------------------------------------------------
(* SpecHealth: the workers are up and serve health() for every disk of at  *)
(* most MaxDisk units and every memory reading, and for failing reads.     *)

\* every worker has built its app at time 0, and nothing was requested yet
Serving(e) ==
    /\ now = 0
    /\ environ = e
    /\ psutil_available = TRUE
    /\ apps = [w \in Workers |-> create_app(0, TRUE)]
    /\ inflight = [w \in Workers |-> [t \in Threads |-> Idle]]
    /\ response = NoResponse
    /\ reads = NoReads
    /\ reported = [info |-> NothingReported, metrics |-> NothingReported]
    /\ failed = [w \in Workers |-> FALSE]

InitHealth == Serving(DeployedEnviron)

NextHealth ==
    \E w \in Workers : \E d \in DiskReads, m \in MemReads : WithFailures(Health(w, d, m))

SpecHealth == InitHealth /\ [][NextHealth]_vars

\* health() made both reads and found a disk of positive size
HealthComputed ==
    /\ Handled("/actuator/health")
    /\ reads.disk.state = "ok" /\ reads.mem.state = "ok"
    /\ reads.disk.total > 0

\* C1: when both reads succeed and the disk total is positive, the overall
\* status is UP exactly when free/total > 0.10 and used percent < 90
C1_OverallStatus ==
    HealthComputed =>
        (response.body.status = "UP"
           <=> /\ reads.disk.free * 10 > reads.disk.total
               /\ reads.mem.percent < 900)

\* C1 witness: a free ratio of exactly 0.10 with memory below 90% gave DOWN
C1_Witness ==
    /\ HealthComputed
    /\ reads.disk.free * 10 = reads.disk.total
    /\ reads.mem.percent = 899
    /\ response.body.status = "DOWN"

\* C2: a free ratio of 0.10 or less (memory read fine) gives overall DOWN,
\* diskSpace DOWN and HTTP 503
C2_LowDiskAnswers503 ==
    (HealthComputed /\ reads.disk.free * 10 <= reads.disk.total) =>
        /\ response.body.status = "DOWN"
        /\ response.body.components.diskSpace.status = "DOWN"
        /\ response.code = 503

\* the statuses of the components a health() body holds
ComponentStatuses(body) ==
    IF "components" \in DOMAIN body
    THEN {body.components[c].status : c \in DOMAIN body.components}
    ELSE {}

\* C6 as stated: in every health() response, the degraded one included, the
\* overall status is UP exactly when every component in it is UP
C6_OverallIffAllComponents ==
    Handled("/actuator/health") =>
        (response.body.status = "UP"
           <=> \A st \in ComponentStatuses(response.body) : st = "UP")

\* C6 amended: in every health() response that holds components, the overall
\* status is UP exactly when every component is UP; the degraded response
\* holds none and is DOWN
C6_OverallIffAllComponentsPresent ==
    Handled("/actuator/health") =>
        IF "components" \in DOMAIN response.body
        THEN response.body.status = "UP"
               <=> \A st \in ComponentStatuses(response.body) : st = "UP"
        ELSE response.body.status = "DOWN"

\* C6 witness: disk UP, memory DOWN, ping UP, overall DOWN
C6_Witness ==
    /\ HealthComputed
    /\ response.body.components.diskSpace.status = "UP"
    /\ response.body.components.memory.status = "DOWN"
    /\ response.body.components.ping.status = "UP"
    /\ response.body.status = "DOWN"

----------------------------------------------------------------------------
(* SpecEnv: the workers are up in every environment of at most MaxEnvVars  *)
(* variables over EnvNames and EnvValues, and serve env().                 *)

InitEnv == \E e \in Environments(EnvNames, EnvValues) : Serving(e)

NextEnv == \E w \in Workers : Quiet(Env(w))

SpecEnv == InitEnv /\ [][NextEnv]_vars

\* the claim's own reading of "the lower-cased name contains a secret word"
NameHasSecretWord(name) ==
    \E word \in secret_words :
        \E i \in 1..Len(name) :
            /\ i + Len(word) - 1 <= Len(name)
            /\ \A j \in 1..Len(word) : char_lower(name[i + j - 1]) = word[j]

\* C4: a variable whose lower-cased name contains a secret word is absent
\* from the env() output; every other variable is in it with exactly its
\* value; the output holds nothing else; values are not looked at
C4_EnvRedaction ==
    Handled("/actuator/env") =>
        LET props == response.body.propertySources[1].properties IN
        /\ response.code = 200
        /\ DOMAIN props \subseteq DOMAIN environ
        /\ \A n \in DOMAIN environ :
               IF NameHasSecretWord(n)
               THEN n \notin DOMAIN props
               ELSE n \in DOMAIN props /\ props[n] = [value |-> environ[n]]

\* C4 witness: Api_Key (mixed case) was left out, and PASS, whose value holds
\* the word "secret", was put out with that value
C4_Witness ==
    /\ Handled("/actuator/env")
    /\ DOMAIN environ = {<<"A","p","i","_","K","e","y">>, <<"P","A","S","S">>}
    /\ environ[<<"P","A","S","S">>] = <<"s","e","c","r","e","t","-","v","a","l","u","e">>
    /\ DOMAIN response.body.propertySources[1].properties = {<<"P","A","S","S">>}

----------------------------------------------------------------------------
(* SpecInfo: the workers are up in every environment of at most MaxEnvVars *)
(* of the configuration variables, time passes, and they serve info().     *)

InitInfo == \E e \in Environments(ConfigNames, ConfigValues) : Serving(e)

NextInfo ==
    \/ Quiet(Tick(MaxTime))
    \/ \E w \in Workers : Quiet(Info(w))

SpecInfo == InitInfo /\ [][NextInfo]_vars

\* the value of a configuration variable, or the documented default
Configured(name, default) == IF name \in DOMAIN environ THEN environ[name] ELSE default

\* C8: info() answers 200, and each configuration field is the value of its
\* variable when set (the commit id in full) and the documented default
\* when unset (for the build time, the timestamp of the call)
C8_InfoConfiguration ==
    Handled("/actuator/info") =>
        LET b == response.body IN
        /\ response.code = 200
        /\ b.app.name = Configured(APP_NAME, default_app_name)
        /\ b.build.artifact = Configured(APP_NAME, default_app_name)
        /\ b.build.name = Configured(APP_NAME, default_app_name)
        /\ b.app.version = Configured(APP_VERSION, default_app_version)
        /\ b.build.version = Configured(APP_VERSION, default_app_version)
        /\ b.build.time = Configured(BUILD_TIME, isoformat(reads.time))
        /\ b.git.branch = Configured(GIT_BRANCH, default_unknown)
        /\ b.git.commit.id = Configured(GIT_COMMIT_HASH, default_unknown)
        /\ b.git.commit.time = Configured(GIT_COMMIT_TIME, default_unknown)
        /\ b.environment = Configured(ENVIRONMENT, default_environment)

\* C8 witness: a ten-character commit hash is shown in full, next to the
\* default version and a default build time taken after time has passed
C8_Witness ==
    /\ Handled("/actuator/info")
    /\ DOMAIN environ = {GIT_COMMIT_HASH}
    /\ Len(environ[GIT_COMMIT_HASH]) = 10
    /\ response.body.git.commit.id = environ[GIT_COMMIT_HASH]
    /\ response.body.build.version = default_app_version
    /\ response.body.build.time = isoformat(1)

----------------------------------------------------------------------------
(* SpecUptime: the workers start at different times and serve info() and   *)
(* metrics(), whose reads succeed, one metrics() call at a time.           *)

InitUptime == Init /\ psutil_available

NextUptime ==
    \/ Quiet(Tick(MaxUptime))
    \/ \E w \in Workers : Quiet(CreateApp(w))
    \/ \E w \in Workers : WithUptime(Info(w), "info")
    \/ \E w \in Workers : Sampling = {} /\ Quiet(MetricsBegin(w))
    \/ \E w \in Workers : \E t \in Threads :
         WithUptime(MetricsEnd(w, t, cpu_percent(250), virtual_memory(1000, 500),
                               disk_usage(10, 5)), "metrics")

SpecUptime == InitUptime /\ [][NextUptime]_vars

\* of the latest two calls of each endpoint, the later shows an uptime not
\* less than the earlier
LaterNotLess(r) == r.prev_who # 0 => r.up >= r.prev_up

\* a worker's start time, once recorded, stays
StartTimeKept ==
    \A w \in Workers :
        apps[w].start_time # NoTime => apps'[w].start_time = apps[w].start_time

----------------------------------------------------------------------------
(* SpecConcurrent: the workers are up, time passes, and requests of every  *)
(* kind arrive while up to MaxInflight metrics() calls are in their        *)
(* sampling windows.                                                       *)

InitConcurrent == Serving(DeployedEnviron)

NextConcurrent ==
    \/ Quiet(Tick(MaxTime))
    \/ \E w \in Workers : Quiet(Healthz(w))
    \/ \E w \in Workers : Quiet(Index(w))
    \/ \E w \in Workers : \E d \in SomeDiskReads, m \in SomeMemReads :
         Quiet(Health(w, d, m))
    \/ \E w \in Workers : Quiet(Info(w))
    \/ \E w \in Workers : Quiet(Env(w))
    \/ \E w \in Workers : Quiet(Configprops(w))
    \/ \E w \in Workers : Quiet(MetricsBegin(w))
    \/ \E w \in Workers : \E t \in Threads :
         \E c \in SomeCpuReads, m \in SomeMemReads, d \in SomeDiskReads :
            Quiet(MetricsEnd(w, t, c, m, d))

SpecConcurrent == InitConcurrent /\ [][NextConcurrent]_vars

\* the calls whose local state a step changes
Touched ==
    {<<w, t>> \in Workers \X Threads : inflight'[w][t] # inflight[w][t]}

====
